---- MODULE Spec2Model ----
(***************************************************************************)
(* Account lifecycle and one-time-code verification of the e-commerce      *)
(* backend (back_end/src): the users and otp_verifications tables, the     *)
(* OTP issuer/verifier, registration, e-mail verification, login, the      *)
(* per-request bearer authentication and the administrator operations.     *)
(*                                                                         *)
(* Time is counted in ticks of 1/TicksPerMinute minute; one clock serves   *)
(* the application and the database.                                       *)
(***************************************************************************)
EXTENDS Integers, Sequences, FiniteSets, TLC

VARIABLES
    users,      \* the users table: a sequence of rows, id = position
    otps,       \* the otp_verifications table: a set of rows
    nextOtpId,  \* AUTO_INCREMENT counter of otp_verifications
    now,        \* the wall clock, in ticks
    tokens,     \* the signed JWTs handed out so far
    last,       \* the request served most recently and its response
    calls,      \* the service calls in flight, statement by statement
    resets,     \* the password_resets table: a set of rows
    nextResetId, \* AUTO_INCREMENT counter of password_resets
    req,        \* the request object of the admin router: route, bearer, req.user
    categories  \* the categories table: a sequence of rows, id = position

vars == <<users, otps, nextOtpId, now, tokens, last, calls, resets, nextResetId, req,
          categories>>

---------------------------------------------------------------------------
(* Bounds of the exploration *)

TicksPerMinute == 2
MaxTicks == 3
MaxMinutes == 1
MaxWeeks == 1
MaxUsers == 2
MaxOtps == 3
MaxLogins == 1
MaxResets == 2
MaxHours == 1

---------------------------------------------------------------------------
(* Program constants *)

OtpLength == 6
OtpExpiryMinutes == 10
OtpCooldownMinutes == 1
LimitOne == 1
AccessTokenDays == 7
RefreshTokenDays == 30
ResetCooldownMinutes == 5
ResetExpiryMinutes == 60

OtpExpiryTicks == OtpExpiryMinutes * TicksPerMinute
MinutesToTicks(m) == m * TicksPerMinute
DaysToTicks(d) == d * 24 * 60 * TicksPerMinute

NULL == -1

USER_STATUSES == {"PENDING_VERIFICATION", "ACTIVE", "SUSPENDED", "DELETED"}
USER_ROLES == {"ADMIN", "SELLER", "CUSTOMER"}
OTP_TYPES == {"EMAIL_VERIFICATION", "PASSWORD_RESET"}
JWT_CONFIG == [ACCESS_TOKEN |-> "access", REFRESH_TOKEN |-> "refresh",
               ACCESS_TOKEN_EXPIRES_IN |-> DaysToTicks(AccessTokenDays),
               REFRESH_TOKEN_EXPIRES_IN |-> DaysToTicks(RefreshTokenDays)]

---------------------------------------------------------------------------
(* Inputs *)

Emails == {"a@x.com", "b@x.com"}
Passwords == {"P@ssw0rd1", "Secr3t!xy"}
NoRole == "undefined"
\* SQL NULL in a text column
NullText == "NULL"
\* the names every registration of the model carries; no phone is given
FirstName == "Ann"
LastName == "Lee"
\* request bodies of PUT /auth/me: the documented camel-case body, bodies
\* with the column names, with fields of other columns, and without fields
ProfileBodies ==
    {[firstName |-> "Bob", lastName |-> "Ray", phone |-> "555"],
     [firstName |-> "Bob"],
     [phone |-> "555"],
     [first_name |-> "Bob", last_name |-> "Ray"],
     [first_name |-> "Bob", email |-> "c@x.com", role |-> "ADMIN",
      status |-> "ACTIVE", password_hash |-> <<"$2a$12$", "salt1", "hacked">>],
     [role |-> "ADMIN", status |-> "ACTIVE"],
     [k \in {} |-> ""]}
\* outcomes of crypto.randomInt(0, 10) for the successive digits of one code
RandomDraws == {<<1, 2, 3, 4, 5, 6>>, <<0, 9, 0, 9, 0, 9>>}

---------------------------------------------------------------------------
(* utils/otpUtils.js *)

digits == <<"0", "1", "2", "3", "4", "5", "6", "7", "8", "9">>

generateOTP(length, draw) == [i \in 1..length |-> digits[draw[i] + 1]]

generateOtpExpiry(minutes, t) == t + MinutesToTicks(minutes)

\* crypto.randomBytes(32).toString('hex'): 256 random bits, taken to differ
\* from draw to draw
generatePasswordResetToken(draw) == <<"reset-token", draw>>

OtpCodes == {generateOTP(OtpLength, d) : d \in RandomDraws}

---------------------------------------------------------------------------
(* app/repositories/otpRepository.js *)

otpCreate(rows, id, otpData, t) ==
    rows \cup {[id |-> id, user_id |-> otpData.user_id, otp_code |-> otpData.otp_code,
                type |-> otpData.type, expires_at |-> otpData.expires_at,
                used |-> FALSE, created_at |-> t]}

\* ORDER BY created_at DESC LIMIT 1: the rows that can come first
Newest(m) == {r \in m : \A s \in m : s.created_at <= r.created_at}

findValidOtp(rows, userId, otpCode, type, t) ==
    Newest({r \in rows : /\ r.user_id = userId
                         /\ r.otp_code = otpCode
                         /\ r.type = type
                         /\ r.used = FALSE
                         /\ r.expires_at > t})

markAsUsed_noop(rows, id) == rows

markAsUsed(rows, id) ==
    {IF r.id = id THEN [r EXCEPT !.used = TRUE] ELSE r : r \in rows}

deleteExpired(rows, t) == {r \in rows : ~(r.expires_at < t)}

getRecentOtps_oldest(rows, userId, type, limit) ==
    LET m == {r \in rows : r.user_id = userId /\ r.type = type}
        k == IF Cardinality(m) < limit THEN Cardinality(m) ELSE limit
    IN {s \in [1..k -> m] :
          /\ \A i, j \in 1..k : i < j => /\ s[i] # s[j]
                                         /\ s[i].created_at <= s[j].created_at
          /\ \A r \in m : (\A i \in 1..k : s[i] # r)
                            => \A i \in 1..k : r.created_at >= s[i].created_at}

\* the possible result lists of the query, newest first, at most `limit` rows
getRecentOtps(rows, userId, type, limit) ==
    LET m == {r \in rows : r.user_id = userId /\ r.type = type}
        k == IF Cardinality(m) < limit THEN Cardinality(m) ELSE limit
    IN {s \in [1..k -> m] :
          /\ \A i, j \in 1..k : i < j => /\ s[i] # s[j]
                                         /\ s[i].created_at >= s[j].created_at
          /\ \A r \in m : (\A i \in 1..k : s[i] # r)
                            => \A i \in 1..k : r.created_at <= s[i].created_at}

hasRecentRequest_sameInstant(rows, userId, type, minutes, t) ==
    Cardinality({r \in rows : /\ r.user_id = userId
                              /\ r.type = type
                              /\ r.created_at >= t}) > 0

hasRecentRequest(rows, userId, type, minutes, t) ==
    Cardinality({r \in rows : /\ r.user_id = userId
                              /\ r.type = type
                              /\ r.created_at > t - MinutesToTicks(minutes)}) > 0

invalidateUserOtps_noop(rows, userId, type) == rows

invalidateUserOtps(rows, userId, type) ==
    {IF r.user_id = userId /\ r.type = type /\ r.used = FALSE
        THEN [r EXCEPT !.used = TRUE] ELSE r : r \in rows}

---------------------------------------------------------------------------
(* app/repositories/passwordResetRepository.js *)

resetCreate(rows, id, resetData, t) ==
    rows \cup {[id |-> id, user_id |-> resetData.user_id, token |-> resetData.token,
                expires_at |-> resetData.expires_at, used |-> FALSE, created_at |-> t]}

findValidByToken(rows, token, t) ==
    Newest({r \in rows : /\ r.token = token
                         /\ r.used = FALSE
                         /\ r.expires_at > t})

resetMarkAsUsed(rows, id) ==
    {IF r.id = id THEN [r EXCEPT !.used = TRUE] ELSE r : r \in rows}

invalidateUserTokens_noop(rows, userId) == rows

invalidateUserTokens(rows, userId) ==
    {IF r.user_id = userId /\ r.used = FALSE
        THEN [r EXCEPT !.used = TRUE] ELSE r : r \in rows}

resetHasRecentRequest(rows, userId, minutes, t) ==
    Cardinality({r \in rows : /\ r.user_id = userId
                              /\ r.created_at > t - MinutesToTicks(minutes)}) > 0

---------------------------------------------------------------------------
(* app/services/notificationService.js: the transport either accepts the   *)
(* message or rejects it, and a rejection is thrown on as EMAIL_SEND_ERROR *)

sendEmail(mailOk) == IF mailOk THEN "OK" ELSE "EMAIL_SEND_ERROR"

sendOtpNotification(mailOk) == sendEmail(mailOk)

sendWelcomeNotification(mailOk) == sendEmail(mailOk)

---------------------------------------------------------------------------
(* app/services/otpService.js *)

\* the result of one call: the table afterwards, the response, and what was
\* generated and sent on the way
generateAndSendOtp(rows, nid, t, userId, type, draw, mailOk) ==
    IF type \notin OTP_TYPES
    THEN [otps |-> rows, nextOtpId |-> nid, outcome |-> "INVALID_OTP_TYPE",
          code |-> <<>>, otpId |-> 0, otpMail |-> 0]
    ELSE IF hasRecentRequest(rows, userId, type, OtpCooldownMinutes, t)
    THEN [otps |-> rows, nextOtpId |-> nid, outcome |-> "TOO_MANY_OTP_REQUESTS",
          code |-> <<>>, otpId |-> 0, otpMail |-> 0]
    ELSE LET otpCode == generateOTP(OtpLength, draw)
             expiresAt == generateOtpExpiry(OtpExpiryMinutes, t)
             invalidated == invalidateUserOtps(rows, userId, type)
             created == otpCreate(invalidated, nid,
                                  [user_id |-> userId, otp_code |-> otpCode,
                                   type |-> type, expires_at |-> expiresAt], t)
         IN [otps |-> created, nextOtpId |-> nid + 1,
             outcome |-> sendOtpNotification(mailOk),
             code |-> otpCode, otpId |-> nid, otpMail |-> 1]

\* the possible results of one call
verifyOtp(rows, t, userId, otpCode, type) ==
    IF type \notin OTP_TYPES
    THEN {[otps |-> rows, valid |-> FALSE, message |-> "INVALID_OTP_TYPE", otpId |-> 0]}
    ELSE LET found == findValidOtp(rows, userId, otpCode, type, t)
         IN IF found = {}
            THEN {[otps |-> rows, valid |-> FALSE, otpId |-> 0,
                   message |->
                     IF Len(recentOtps) > 0
                     THEN IF recentOtps[1].used THEN "OTP has already been used"
                          ELSE IF recentOtps[1].expires_at < t THEN "OTP_EXPIRED"
                          ELSE "OTP_INVALID"
                     ELSE "OTP_INVALID"]
                  : recentOtps \in getRecentOtps(rows, userId, type, LimitOne)}
            ELSE {[otps |-> markAsUsed(rows, otpRecord.id), valid |-> TRUE,
                   message |-> "OTP_VERIFIED", otpId |-> otpRecord.id]
                  : otpRecord \in found}

cleanupExpiredOtps(rows, t) == deleteExpired(rows, t)

---------------------------------------------------------------------------
(* utils/passwordUtils.js: bcrypt keeps the salt next to the digest; the   *)
(* digest is opaque and stands for the password it was computed from       *)

Salts == {"salt1"}

hashPassword(password, salt) == <<"$2a$12$", salt, password>>

verifyPassword(password, hash) == hash[3] = password

---------------------------------------------------------------------------
(* utils/jwtUtils.js: a token is its claim set; the signature is good for  *)
(* exactly the tokens this server has signed                               *)

generateAccessToken(payload, t) ==
    [userId |-> payload.userId, email |-> payload.email, role |-> payload.role,
     type |-> JWT_CONFIG.ACCESS_TOKEN, exp |-> t + JWT_CONFIG.ACCESS_TOKEN_EXPIRES_IN]

generateRefreshToken(payload, t) ==
    [userId |-> payload.userId, email |-> payload.email, role |-> payload.role,
     type |-> JWT_CONFIG.REFRESH_TOKEN, exp |-> t + JWT_CONFIG.REFRESH_TOKEN_EXPIRES_IN]

ForgedToken == [userId |-> 1, email |-> "a@x.com", role |-> "ADMIN",
                type |-> "access", exp |-> 0 - 1]

\* "OK", or the message of the error thrown
verifyToken(signed, token, t) ==
    IF token \notin signed THEN "Invalid token"
    ELSE IF t >= token.exp THEN "Token has expired"
    ELSE "OK"

---------------------------------------------------------------------------
(* app/repositories/userRepository.js; a lookup answers the id, 0 for null *)

findById(us, id) ==
    IF id \in 1..Len(us) /\ us[id].status # "DELETED" THEN id ELSE 0

findByEmail(us, email) ==
    IF \E i \in 1..Len(us) : us[i].email = email /\ us[i].status # "DELETED"
    THEN CHOOSE i \in 1..Len(us) : us[i].email = email /\ us[i].status # "DELETED"
    ELSE 0

\* the UNIQUE index on users.email covers the soft-deleted rows as well
emailTaken(us, email) == \E i \in 1..Len(us) : us[i].email = email

userCreate_active(us, userData) ==
    Append(us, [email |-> userData.email, password_hash |-> userData.password_hash,
                first_name |-> userData.first_name,
                last_name |-> userData.last_name, phone |-> userData.phone,
                role |-> userData.role, status |-> "ACTIVE",
                email_verified_at |-> NULL, last_login_at |-> NULL])

userCreate(us, userData) ==
    Append(us, [email |-> userData.email, password_hash |-> userData.password_hash,
                first_name |-> userData.first_name,
                last_name |-> userData.last_name, phone |-> userData.phone,
                role |-> userData.role, status |-> userData.status,
                email_verified_at |-> NULL, last_login_at |-> NULL])

updateById_keepStatus(us, id, updateData) ==
    IF id \in 1..Len(us) /\ us[id].status # "DELETED"
    THEN [us EXCEPT ![id] = [f \in DOMAIN us[id] |->
                               IF f \in DOMAIN updateData \ {"status"} THEN updateData[f]
                               ELSE us[id][f]]]
    ELSE us

updateById(us, id, updateData) ==
    IF id \in 1..Len(us) /\ us[id].status # "DELETED"
    THEN [us EXCEPT ![id] = [f \in DOMAIN us[id] |->
                               IF f \in DOMAIN updateData THEN updateData[f]
                               ELSE us[id][f]]]
    ELSE us

updateLastLogin_skip(us, id, t) == us

updateLastLogin(us, id, t) ==
    IF id \in 1..Len(us) /\ us[id].status # "DELETED"
    THEN [us EXCEPT ![id].last_login_at = t]
    ELSE us

deleteById_hard(us, id) ==
    IF id \in 1..Len(us)
    THEN SubSeq(us, 1, id - 1) \o SubSeq(us, id + 1, Len(us))
    ELSE us

deleteById(us, id) ==
    IF id \in 1..Len(us) THEN [us EXCEPT ![id].status = "DELETED"] ELSE us

\* COUNT(*) per status; the total leaves the soft-deleted rows out
getUserStatsRows(us) ==
    LET count(S) == Cardinality({i \in 1..Len(us) : us[i].status \in S})
    IN [totalUsers |-> count(USER_STATUSES \ {"DELETED"}),
        activeUsers |-> count({"ACTIVE"}),
        pendingVerifications |-> count({"PENDING_VERIFICATION"}),
        suspendedUsers |-> count({"SUSPENDED"})]

\* the rows of one page, newest first, and the pagination record; role and
\* status filter only when given
findWithPagination(us, options) ==
    LET match == {i \in 1..Len(us) :
                    /\ us[i].status # "DELETED"
                    /\ options.role # "" => us[i].role = options.role
                    /\ options.status # "" => us[i].status = options.status}
        rank(i) == Cardinality({j \in match : j > i})
        total == Cardinality(match)
    IN [users |-> {i \in match : /\ rank(i) >= options.offset
                                  /\ rank(i) < options.offset + options.limit},
        pagination |-> [total |-> total, limit |-> options.limit,
                        offset |-> options.offset,
                        pages |-> (total + options.limit - 1) \div options.limit]]

\* const { password_hash, ...userWithoutPassword } = user
sanitize(id, row) ==
    [f \in (DOMAIN row \ {"password_hash"}) \cup {"id"} |->
        IF f = "id" THEN id ELSE row[f]]

---------------------------------------------------------------------------
(* The response record of a request *)

NoUser == [id |-> 0, email |-> "", role |-> "", status |-> ""]

NoResult == [op |-> "none", email |-> "", password |-> "", newPassword |-> "",
             role |-> "", resetId |-> 0,
             uid |-> 0, type |-> "", code |-> <<>>, bearer |-> {}, user |-> NoUser,
             outcome |-> "", message |-> "", otpId |-> 0, otpMail |-> 0,
             welcomeMail |-> 0, issued |-> {}, reqUser |-> NoUser, data |-> <<>>]

NoRequest == [route |-> "", bearer |-> {}, user |-> NoUser]

Idle == [pc |-> "idle", uid |-> 0, code |-> <<>>, expires_at |-> 0, outcome |-> "",
         row |-> 0, newPassword |-> "", type |-> ""]

Procs == {1, 2}

Init ==
    /\ users = <<>>
    /\ otps = {}
    /\ nextOtpId = 1
    /\ now = 0
    /\ tokens = {}
    /\ last = NoResult
    /\ calls = [p \in Procs |-> Idle]
    /\ resets = {}
    /\ nextResetId = 1
    /\ req = NoRequest
    /\ categories = <<>>

---------------------------------------------------------------------------
(* The clock *)

\* the number of advances that led to time t, as long as fewer than
\* OtpExpiryTicks single ticks were taken
TicksUsed(t) == (t \div OtpExpiryTicks) + (t % OtpExpiryTicks)

Advance(d) ==
    /\ now' = now + d
    /\ UNCHANGED <<users, otps, nextOtpId, tokens, last, calls, categories, resets, nextResetId, req>>

\* half a minute, or the lifetime of a code
Tick ==
    /\ TicksUsed(now) < MaxTicks
    /\ \E d \in {1, OtpExpiryTicks} : Advance(d)

\* the lifetime of an access token
TickWeek ==
    /\ now < DaysToTicks(AccessTokenDays) * MaxWeeks
    /\ Advance(DaysToTicks(AccessTokenDays))

\* the cool-down of the reset-token issuer
TickCooldown ==
    /\ ((now % DaysToTicks(AccessTokenDays)) % MinutesToTicks(ResetExpiryMinutes))
          \div MinutesToTicks(ResetCooldownMinutes) < MaxMinutes
    /\ Advance(MinutesToTicks(ResetCooldownMinutes))

\* the lifetime of a reset token
TickHour ==
    /\ (now % DaysToTicks(AccessTokenDays)) \div MinutesToTicks(ResetExpiryMinutes)
          < MaxHours
    /\ Advance(MinutesToTicks(ResetExpiryMinutes))

\* the cool-down of the issuer
TickMinute ==
    /\ now % DaysToTicks(AccessTokenDays) < MinutesToTicks(OtpCooldownMinutes) * MaxMinutes
    /\ Advance(MinutesToTicks(OtpCooldownMinutes))

---------------------------------------------------------------------------
(* app/services/otpService.js, called directly *)

IssueOtp(userId, type, draw, mailOk) ==
    /\ nextOtpId <= MaxOtps
    /\ LET r == generateAndSendOtp(otps, nextOtpId, now, userId, type, draw, mailOk)
       IN /\ otps' = r.otps
          /\ nextOtpId' = r.nextOtpId
          /\ last' = [NoResult EXCEPT !.op = "generateAndSendOtp", !.uid = userId,
                        !.type = type, !.code = r.code, !.outcome = r.outcome,
                        !.otpId = r.otpId, !.otpMail = r.otpMail]
    /\ UNCHANGED <<users, now, tokens, calls, categories, resets, nextResetId, req>>

VerifyOtp(userId, otpCode, type) ==
    /\ \E r \in verifyOtp(otps, now, userId, otpCode, type) :
          /\ otps' = r.otps
          /\ last' = [NoResult EXCEPT !.op = "verifyOtp", !.uid = userId,
                        !.type = type, !.code = otpCode,
                        !.outcome = IF r.valid THEN "VALID" ELSE "NOT_VALID",
                        !.message = r.message, !.otpId = r.otpId]
    /\ UNCHANGED <<users, nextOtpId, now, tokens, calls, categories, resets, nextResetId, req>>

CleanupExpiredOtps ==
    /\ otps' = cleanupExpiredOtps(otps, now)
    /\ last' = [NoResult EXCEPT !.op = "cleanupExpiredOtps", !.outcome = "OK"]
    /\ UNCHANGED <<users, nextOtpId, now, tokens, calls, categories, resets, nextResetId, req>>

---------------------------------------------------------------------------
(* app/services/userService.js *)

registerUser(email, password, role, salt, draw, mailOk) ==
    /\ Len(users) < MaxUsers
    /\ nextOtpId <= MaxOtps
    /\ IF findByEmail(users, email) # 0
       THEN /\ last' = [NoResult EXCEPT !.op = "registerUser", !.email = email,
                          !.password = password, !.role = role,
                          !.outcome = "USER_ALREADY_EXISTS"]
            /\ UNCHANGED <<users, otps, nextOtpId>>
       ELSE IF role = NoRole
       \* role || USER_ROLES.CUSTOMER, and USER_ROLES is not among the exports
       \* of constants/userStatuses: the read of .CUSTOMER throws
       THEN /\ last' = [NoResult EXCEPT !.op = "registerUser", !.email = email,
                          !.password = password, !.role = role,
                          !.outcome = "USER_REGISTRATION_ERROR"]
            /\ UNCHANGED <<users, otps, nextOtpId>>
       ELSE IF emailTaken(users, email)
       THEN /\ last' = [NoResult EXCEPT !.op = "registerUser", !.email = email,
                          !.password = password, !.role = role,
                          !.outcome = "USER_CREATE_ERROR"]
            /\ UNCHANGED <<users, otps, nextOtpId>>
       ELSE LET created == userCreate(users,
                              [email |-> email,
                               password_hash |-> hashPassword(password, salt),
                               first_name |-> FirstName, last_name |-> LastName,
                               phone |-> NullText,
                               role |-> role, status |-> "PENDING_VERIFICATION"])
                uid == Len(created)
                r == generateAndSendOtp(otps, nextOtpId, now, uid,
                                        "EMAIL_VERIFICATION", draw, mailOk)
            IN /\ users' = created
               /\ otps' = r.otps
               /\ nextOtpId' = r.nextOtpId
               /\ last' = [NoResult EXCEPT !.op = "registerUser", !.email = email,
                          !.password = password, !.role = role,
                             !.uid = uid, !.type = "EMAIL_VERIFICATION",
                             !.code = r.code, !.outcome = r.outcome,
                             !.otpId = r.otpId, !.otpMail = r.otpMail,
                             !.user = IF r.outcome = "OK"
                                      THEN sanitize(uid, created[uid])
                                      ELSE NoUser]
    /\ UNCHANGED <<now, tokens, calls, categories, resets, nextResetId, req>>

verifyEmail(email, otpCode, mailOk) ==
    /\ LET uid == findByEmail(users, email)
       IN IF uid = 0
          THEN /\ last' = [NoResult EXCEPT !.op = "verifyEmail", !.email = email,
                             !.code = otpCode, !.outcome = "USER_NOT_FOUND"]
               /\ UNCHANGED <<users, otps>>
          ELSE IF users[uid].status = "ACTIVE"
          THEN /\ last' = [NoResult EXCEPT !.op = "verifyEmail", !.email = email,
                             !.uid = uid, !.code = otpCode,
                             !.outcome = "EMAIL_ALREADY_VERIFIED"]
               /\ UNCHANGED <<users, otps>>
          ELSE \E r \in verifyOtp(otps, now, uid, otpCode, "EMAIL_VERIFICATION") :
                 /\ otps' = r.otps
                 /\ IF ~r.valid
                    THEN /\ last' = [NoResult EXCEPT !.op = "verifyEmail",
                                       !.email = email, !.uid = uid, !.code = otpCode,
                                       !.type = "EMAIL_VERIFICATION",
                                       !.outcome = "INVALID_OTP",
                                       !.message = r.message]
                         /\ UNCHANGED users
                    ELSE /\ users' = updateById(users, uid,
                                        [status |-> "ACTIVE", email_verified_at |-> now])
                         /\ last' = [NoResult EXCEPT !.op = "verifyEmail",
                                       !.email = email, !.uid = uid, !.code = otpCode,
                                       !.type = "EMAIL_VERIFICATION",
                                       !.outcome = sendWelcomeNotification(mailOk),
                                       !.message = r.message, !.otpId = r.otpId,
                                       !.welcomeMail = 1]
    /\ UNCHANGED <<nextOtpId, now, tokens, calls, categories, resets, nextResetId, req>>

resendOtp(email, draw, mailOk) ==
    /\ nextOtpId <= MaxOtps
    /\ LET uid == findByEmail(users, email)
       IN IF uid = 0
          THEN /\ last' = [NoResult EXCEPT !.op = "resendOtp", !.email = email,
                             !.outcome = "USER_NOT_FOUND"]
               /\ UNCHANGED <<otps, nextOtpId>>
          ELSE IF users[uid].status = "ACTIVE"
          THEN /\ last' = [NoResult EXCEPT !.op = "resendOtp", !.email = email,
                             !.uid = uid, !.outcome = "EMAIL_ALREADY_VERIFIED"]
               /\ UNCHANGED <<otps, nextOtpId>>
          ELSE LET r == generateAndSendOtp(otps, nextOtpId, now, uid,
                                           "EMAIL_VERIFICATION", draw, mailOk)
               IN /\ otps' = r.otps
                  /\ nextOtpId' = r.nextOtpId
                  /\ last' = [NoResult EXCEPT !.op = "resendOtp", !.email = email,
                                !.uid = uid, !.type = "EMAIL_VERIFICATION",
                                !.code = r.code, !.outcome = r.outcome,
                                !.otpId = r.otpId, !.otpMail = r.otpMail]
    /\ UNCHANGED <<users, now, tokens, calls, categories, resets, nextResetId, req>>

updateUserStatus(userId, status) ==
    /\ IF status \notin USER_STATUSES
       THEN /\ last' = [NoResult EXCEPT !.op = "updateUserStatus", !.uid = userId,
                          !.outcome = "INVALID_STATUS"]
            /\ UNCHANGED users
       ELSE IF findById(users, userId) = 0
       THEN /\ last' = [NoResult EXCEPT !.op = "updateUserStatus", !.uid = userId,
                          !.outcome = "USER_NOT_FOUND"]
            /\ UNCHANGED users
       ELSE /\ users' = updateById(users, userId, [status |-> status])
            /\ last' = [NoResult EXCEPT !.op = "updateUserStatus", !.uid = userId,
                          !.message = status, !.outcome = "OK"]
    /\ UNCHANGED <<otps, nextOtpId, now, tokens, calls, categories, resets, nextResetId>>

deleteUser(userId) ==
    /\ IF findById(users, userId) = 0
       THEN /\ last' = [NoResult EXCEPT !.op = "deleteUser", !.uid = userId,
                          !.outcome = "USER_NOT_FOUND"]
            /\ UNCHANGED users
       ELSE /\ users' = deleteById(users, userId)
            /\ last' = [NoResult EXCEPT !.op = "deleteUser", !.uid = userId,
                          !.outcome = "OK"]
    /\ UNCHANGED <<otps, nextOtpId, now, tokens, calls, categories, resets, nextResetId>>

\* the fields of the body that updateUserProfile hands to updateById
filterProfile_all(updateData) == updateData

filterProfile(updateData) ==
    LET allowedFields == {"first_name", "last_name", "phone"}
    IN [field \in allowedFields \cap DOMAIN updateData |-> updateData[field]]

updateUserProfile(userId, updateData) ==
    /\ IF findById(users, userId) = 0
       THEN /\ last' = [NoResult EXCEPT !.op = "updateUserProfile", !.uid = userId,
                          !.data = updateData, !.outcome = "USER_NOT_FOUND"]
            /\ UNCHANGED users
       ELSE LET filteredData == filterProfile(updateData)
            IN IF DOMAIN filteredData = {}
               THEN /\ last' = [NoResult EXCEPT !.op = "updateUserProfile",
                                  !.uid = userId, !.data = updateData,
                                  !.outcome = "NO_UPDATE_FIELDS"]
                    /\ UNCHANGED users
               ELSE LET updated == updateById(users, userId, filteredData)
                    IN /\ users' = updated
                       /\ last' = [NoResult EXCEPT !.op = "updateUserProfile",
                                     !.uid = userId, !.data = updateData,
                                     !.user = sanitize(userId, updated[userId]),
                                     !.outcome = "OK"]
    /\ UNCHANGED <<otps, nextOtpId, now, tokens, calls, categories, resets, nextResetId>>

getUserProfile(userId) ==
    /\ last' = IF findById(users, userId) = 0
               THEN [NoResult EXCEPT !.op = "getUserProfile", !.uid = userId,
                       !.outcome = "USER_NOT_FOUND"]
               ELSE [NoResult EXCEPT !.op = "getUserProfile", !.uid = userId,
                       !.user = sanitize(userId, users[userId]),
                       !.outcome = "OK"]
    /\ UNCHANGED <<users, otps, nextOtpId, now, tokens, calls, categories, resets, nextResetId>>

getUsers(options) ==
    /\ LET result == findWithPagination(users, options)
       IN last' = [NoResult EXCEPT !.op = "getUsers", !.outcome = "OK",
                     !.data = [users |-> {sanitize(i, users[i]) : i \in result.users},
                               pagination |-> result.pagination]]
    /\ UNCHANGED <<users, otps, nextOtpId, now, tokens, calls, categories, resets, nextResetId>>

getUserStats ==
    /\ last' = [NoResult EXCEPT !.op = "getUserStats", !.outcome = "OK",
                  !.data = getUserStatsRows(users)]
    /\ UNCHANGED <<users, otps, nextOtpId, now, tokens, calls, categories, resets, nextResetId>>

---------------------------------------------------------------------------
(* app/services/authService.js: login *)

\* the checks of authenticateUser, in their order: "OK" or the error code
authenticateUserCheck(us, email, password) ==
    LET uid == findByEmail(us, email)
    IN IF uid = 0 THEN "INVALID_CREDENTIALS"
       ELSE IF us[uid].status = "SUSPENDED" THEN "ACCOUNT_SUSPENDED"
       ELSE IF us[uid].status = "PENDING_VERIFICATION" THEN "EMAIL_NOT_VERIFIED"
       ELSE IF ~verifyPassword(password, us[uid].password_hash)
            THEN "INVALID_CREDENTIALS"
       ELSE "OK"

\* the error thrown for an error code: status, code and message
loginError(code) ==
    IF code = "INVALID_CREDENTIALS"
    THEN [statusCode |-> 401, code |-> code, message |-> "Invalid email or password"]
    ELSE IF code = "ACCOUNT_SUSPENDED"
    THEN [statusCode |-> 403, code |-> code, message |-> "Account is suspended"]
    ELSE IF code = "EMAIL_NOT_VERIFIED"
    THEN [statusCode |-> 403, code |-> code,
          message |-> "Please verify your email before logging in"]
    ELSE [statusCode |-> 200, code |-> code, message |-> ""]

authenticateUser(email, password) ==
    /\ LET uid == findByEmail(users, email)
           outcome == authenticateUserCheck(users, email, password)
       IN IF outcome # "OK"
          THEN /\ last' = [NoResult EXCEPT !.op = "authenticateUser", !.email = email,
                             !.password = password, !.uid = uid,
                             !.outcome = outcome]
               /\ UNCHANGED <<users, tokens>>
          ELSE LET tokenPayload == [userId |-> uid, email |-> users[uid].email,
                                    role |-> users[uid].role]
                   pair == {generateAccessToken(tokenPayload, now),
                            generateRefreshToken(tokenPayload, now)}
               IN /\ Cardinality(tokens) < 2 * MaxLogins
                  /\ users' = updateLastLogin(users, uid, now)
                  /\ tokens' = tokens \cup pair
                  /\ last' = [NoResult EXCEPT !.op = "authenticateUser",
                                !.email = email, !.password = password,
                                !.uid = uid, !.outcome = "OK", !.issued = pair]
    /\ UNCHANGED <<otps, nextOtpId, now, calls, categories, resets, nextResetId, req>>

---------------------------------------------------------------------------
(* middleware/authMiddleware.js: per-request authentication *)

authenticateCheck_anyStatus(signed, us, hasBearer, token, t) ==
    IF ~hasBearer THEN "NO_TOKEN"
    ELSE IF verifyToken(signed, token, t) = "Token has expired" THEN "TOKEN_EXPIRED"
    ELSE IF verifyToken(signed, token, t) = "Invalid token" THEN "INVALID_TOKEN"
    ELSE IF token.type # "access" THEN "INVALID_TOKEN_TYPE"
    ELSE IF findById(us, token.userId) = 0 THEN "USER_NOT_FOUND"
    ELSE "OK"

\* "OK" or the code of the error handed to next()
authenticateCheck(signed, us, hasBearer, token, t) ==
    IF ~hasBearer THEN "NO_TOKEN"
    ELSE IF verifyToken(signed, token, t) = "Token has expired" THEN "TOKEN_EXPIRED"
    ELSE IF verifyToken(signed, token, t) = "Invalid token" THEN "INVALID_TOKEN"
    ELSE IF token.type # "access" THEN "INVALID_TOKEN_TYPE"
    ELSE IF findById(us, token.userId) = 0 THEN "USER_NOT_FOUND"
    ELSE IF us[token.userId].status # "ACTIVE" THEN "ACCOUNT_INACTIVE"
    ELSE "OK"

authenticate(hasBearer, token) ==
    /\ LET outcome == authenticateCheck(tokens, users, hasBearer, token, now)
       IN last' = [NoResult EXCEPT !.op = "authenticate", !.outcome = outcome,
                     !.bearer = IF hasBearer THEN {token} ELSE {},
                     !.uid = IF hasBearer THEN token.userId ELSE 0,
                     !.reqUser = IF outcome = "OK"
                                 THEN [id |-> token.userId,
                                       email |-> users[token.userId].email,
                                       role |-> users[token.userId].role,
                                       status |-> users[token.userId].status]
                                 ELSE NoUser]
    /\ UNCHANGED <<users, otps, nextOtpId, now, tokens, calls, categories, resets, nextResetId, req>>

\* "OK" or the code of the error handed to next()
authorize(allowedRoles, reqUser) ==
    IF reqUser = NoUser THEN "NO_AUTH"
    ELSE IF reqUser.role \notin allowedRoles THEN "INSUFFICIENT_PERMISSIONS"
    ELSE "OK"

requireRole(allowedRoles, reqUser) == authorize(allowedRoles, reqUser)

adminOnly_anyRole(reqUser) ==
    IF reqUser = NoUser THEN "NO_AUTH"
    ELSE "OK"

adminOnly(reqUser) ==
    IF reqUser = NoUser THEN "NO_AUTH"
    ELSE IF reqUser.role # "ADMIN" THEN "ADMIN_REQUIRED"
    ELSE "OK"

---------------------------------------------------------------------------
(* routes/adminRoutes.js: router.use(authenticate), router.use(adminOnly),  *)
(* then the controller of the route                                        *)

adminRoute(route, hasBearer, token, controller) ==
    LET authenticated == authenticateCheck(tokens, users, hasBearer, token, now)
        reqUser == IF authenticated = "OK"
                   THEN [id |-> token.userId,
                         email |-> users[token.userId].email,
                         role |-> users[token.userId].role,
                         status |-> users[token.userId].status]
                   ELSE NoUser
        outcome == IF authenticated # "OK" THEN authenticated
                   ELSE adminOnly(reqUser)
    IN /\ req' = [route |-> route,
                  bearer |-> IF hasBearer THEN {token} ELSE {},
                  user |-> reqUser]
       /\ IF outcome = "OK"
          THEN controller
          ELSE /\ last' = [NoResult EXCEPT !.op = route, !.outcome = outcome,
                             !.bearer = IF hasBearer THEN {token} ELSE {}]
               /\ UNCHANGED <<users, otps, nextOtpId, now, tokens, calls, categories,
                              resets, nextResetId>>

\* routes/authRoutes.js: a route guarded by authenticate alone; its
\* controller acts for req.user.id, the userId of the verified token
meRoute(route, hasBearer, token, controller) ==
    LET authenticated == authenticateCheck(tokens, users, hasBearer, token, now)
        reqUser == IF authenticated = "OK"
                   THEN [id |-> token.userId,
                         email |-> users[token.userId].email,
                         role |-> users[token.userId].role,
                         status |-> users[token.userId].status]
                   ELSE NoUser
    IN /\ req' = [route |-> route,
                  bearer |-> IF hasBearer THEN {token} ELSE {},
                  user |-> reqUser]
       /\ IF authenticated = "OK"
          THEN controller
          ELSE /\ last' = [NoResult EXCEPT !.op = route, !.outcome = authenticated,
                             !.bearer = IF hasBearer THEN {token} ELSE {}]
               /\ UNCHANGED <<users, otps, nextOtpId, now, tokens, calls, categories,
                              resets, nextResetId>>

\* POST /register: validate(registerSchema) replaces req.body by the parsed
\* body, in which a missing role has become CUSTOMER, then the controller
\* calls registerUser
register(email, password, role, salt, draw, mailOk) ==
    IF role \notin USER_ROLES \cup {NoRole}
    THEN /\ last' = [NoResult EXCEPT !.op = "POST /register", !.email = email,
                       !.password = password, !.role = role,
                       !.outcome = "VALIDATION_ERROR"]
         /\ UNCHANGED <<users, otps, nextOtpId, now, tokens, calls, categories,
                        resets, nextResetId, req>>
    ELSE registerUser(email, password,
                      IF role = NoRole THEN "CUSTOMER" ELSE role,
                      salt, draw, mailOk)

\* AuthController.updateProfile behind PUT /me
updateProfile(hasBearer, token, body) ==
    meRoute("PUT /me", hasBearer, token, updateUserProfile(token.userId, body))

\* a route guarded by authenticate and requireRole(allowedRoles), up to the
\* point where its controller is entered
roleRoute(allowedRoles, hasBearer, token) ==
    LET authenticated == authenticateCheck(tokens, users, hasBearer, token, now)
        reqUser == IF authenticated = "OK"
                   THEN [id |-> token.userId,
                         email |-> users[token.userId].email,
                         role |-> users[token.userId].role,
                         status |-> users[token.userId].status]
                   ELSE NoUser
        outcome == IF authenticated # "OK" THEN authenticated
                   ELSE requireRole(allowedRoles, reqUser)
    IN /\ req' = [route |-> "requireRole",
                  bearer |-> IF hasBearer THEN {token} ELSE {},
                  user |-> reqUser]
       /\ last' = [NoResult EXCEPT !.op = "requireRole", !.outcome = outcome,
                     !.bearer = IF hasBearer THEN {token} ELSE {},
                     !.reqUser = reqUser, !.data = allowedRoles]
       /\ UNCHANGED <<users, otps, nextOtpId, now, tokens, calls, categories,
                      resets, nextResetId>>

\* GET /users with the controller's defaults: page 1, limit 10, no filter
DefaultOptions == [limit |-> 10, offset |-> 0, role |-> "", status |-> ""]

---------------------------------------------------------------------------
(* app/services/authService.js: token refresh, password reset and change *)

\* the names the module binds at its top (lines 6-10) and in its class
authServiceImports ==
    {"createAppError", "API_MESSAGES", "hashPasswordUtil", "verifyPassword",
     "generateAccessTokenUtil", "generateRefreshTokenUtil", "verifyTokenUtil",
     "generatePasswordResetToken", "AuthService"}

\* "OK" or the code of the error thrown; reading a name the module does not
\* bind throws a ReferenceError, which the catch block turns into
\* TOKEN_REFRESH_ERROR
refreshAccessTokenCheck(signed, us, token, t) ==
    IF verifyToken(signed, token, t) = "Token has expired" THEN "TOKEN_EXPIRED"
    ELSE IF verifyToken(signed, token, t) = "Invalid token" THEN "INVALID_TOKEN"
    ELSE IF "JWT_CONFIG" \notin authServiceImports THEN "TOKEN_REFRESH_ERROR"
    ELSE IF token.type # JWT_CONFIG.REFRESH_TOKEN THEN "INVALID_TOKEN_TYPE"
    ELSE IF findById(us, token.userId) = 0 \/ us[token.userId].status # "ACTIVE"
         THEN "USER_NOT_FOUND"
    ELSE "OK"

refreshAccessToken(token) ==
    /\ LET outcome == refreshAccessTokenCheck(tokens, users, token, now)
       IN IF outcome # "OK"
          THEN /\ last' = [NoResult EXCEPT !.op = "refreshAccessToken",
                             !.bearer = {token}, !.uid = token.userId,
                             !.outcome = outcome]
               /\ UNCHANGED tokens
          ELSE LET user == users[token.userId]
                   newAccessToken ==
                       generateAccessToken([userId |-> token.userId,
                                            email |-> user.email,
                                            role |-> user.role], now)
               IN /\ tokens' = tokens \cup {newAccessToken}
                  /\ last' = [NoResult EXCEPT !.op = "refreshAccessToken",
                                !.bearer = {token}, !.uid = token.userId,
                                !.outcome = "OK", !.issued = {newAccessToken}]
    /\ UNCHANGED <<users, otps, nextOtpId, now, calls, categories, resets, nextResetId, req>>

createPasswordResetToken(email) ==
    /\ nextResetId <= MaxResets
    /\ LET uid == findByEmail(users, email)
       IN IF uid = 0
          THEN /\ last' = [NoResult EXCEPT !.op = "createPasswordResetToken",
                             !.email = email, !.outcome = "USER_NOT_FOUND"]
               /\ UNCHANGED <<resets, nextResetId>>
          ELSE IF resetHasRecentRequest(resets, uid, ResetCooldownMinutes, now)
          THEN /\ last' = [NoResult EXCEPT !.op = "createPasswordResetToken",
                             !.email = email, !.uid = uid,
                             !.outcome = "TOO_MANY_REQUESTS"]
               /\ UNCHANGED <<resets, nextResetId>>
          ELSE LET resetToken == generatePasswordResetToken(nextResetId)
                   expiresAt == now + MinutesToTicks(ResetExpiryMinutes)
               IN /\ resets' = resetCreate(invalidateUserTokens(resets, uid),
                                           nextResetId,
                                           [user_id |-> uid, token |-> resetToken,
                                            expires_at |-> expiresAt], now)
                  /\ nextResetId' = nextResetId + 1
                  /\ last' = [NoResult EXCEPT !.op = "createPasswordResetToken",
                                !.email = email, !.uid = uid, !.code = resetToken,
                                !.resetId = nextResetId, !.outcome = "OK"]
    /\ UNCHANGED <<users, otps, nextOtpId, now, tokens, calls, categories, req>>

resetPassword(token, newPassword, salt) ==
    /\ LET found == findValidByToken(resets, token, now)
       IN IF found = {}
          THEN /\ last' = [NoResult EXCEPT !.op = "resetPassword", !.code = token,
                             !.newPassword = newPassword,
                             !.outcome = "INVALID_RESET_TOKEN"]
               /\ UNCHANGED <<users, resets>>
          ELSE \E resetRecord \in found :
                 /\ users' = updateById(users, resetRecord.user_id,
                                [password_hash |-> hashPassword(newPassword, salt)])
                 /\ resets' = invalidateUserTokens(
                                  resetMarkAsUsed(resets, resetRecord.id),
                                  resetRecord.user_id)
                 /\ last' = [NoResult EXCEPT !.op = "resetPassword", !.code = token,
                               !.newPassword = newPassword,
                               !.uid = resetRecord.user_id,
                               !.resetId = resetRecord.id, !.outcome = "OK"]
    /\ UNCHANGED <<otps, nextOtpId, now, tokens, calls, categories, nextResetId, req>>

changePassword_unchecked(userId, currentPassword, newPassword, salt) ==
    /\ IF findById(users, userId) = 0
       THEN /\ last' = [NoResult EXCEPT !.op = "changePassword", !.uid = userId,
                          !.password = currentPassword, !.newPassword = newPassword,
                          !.outcome = "USER_NOT_FOUND"]
            /\ UNCHANGED users
       ELSE /\ users' = updateById(users, userId,
                            [password_hash |-> hashPassword(newPassword, salt)])
            /\ last' = [NoResult EXCEPT !.op = "changePassword", !.uid = userId,
                          !.password = currentPassword, !.newPassword = newPassword,
                          !.outcome = "OK"]
    /\ UNCHANGED <<otps, nextOtpId, now, tokens, calls, categories, resets, nextResetId, req>>

changePassword(userId, currentPassword, newPassword, salt) ==
    /\ IF findById(users, userId) = 0
       THEN /\ last' = [NoResult EXCEPT !.op = "changePassword", !.uid = userId,
                          !.password = currentPassword, !.newPassword = newPassword,
                          !.outcome = "USER_NOT_FOUND"]
            /\ UNCHANGED users
       ELSE IF ~verifyPassword(currentPassword, users[userId].password_hash)
       THEN /\ last' = [NoResult EXCEPT !.op = "changePassword", !.uid = userId,
                          !.password = currentPassword, !.newPassword = newPassword,
                          !.outcome = "INVALID_CURRENT_PASSWORD"]
            /\ UNCHANGED users
       ELSE /\ users' = updateById(users, userId,
                            [password_hash |-> hashPassword(newPassword, salt)])
            /\ last' = [NoResult EXCEPT !.op = "changePassword", !.uid = userId,
                          !.password = currentPassword, !.newPassword = newPassword,
                          !.outcome = "OK"]
    /\ UNCHANGED <<otps, nextOtpId, now, tokens, calls, categories, resets, nextResetId, req>>

---------------------------------------------------------------------------
(* resendOtp as the event loop runs it: each await is a step of its own,   *)
(* and the statements of two calls interleave                              *)

Finished(p) == calls[p].pc = "done"

ResendFind(p, email) ==
    /\ calls[p].pc = "idle"
    /\ LET uid == findByEmail(users, email)
       IN calls' = [calls EXCEPT ![p] =
                     IF uid = 0
                     THEN [Idle EXCEPT !.pc = "done", !.outcome = "USER_NOT_FOUND"]
                     ELSE IF users[uid].status = "ACTIVE"
                     THEN [Idle EXCEPT !.pc = "done", !.uid = uid,
                                       !.outcome = "EMAIL_ALREADY_VERIFIED"]
                     ELSE [Idle EXCEPT !.pc = "check", !.uid = uid]]
    /\ UNCHANGED <<users, otps, nextOtpId, now, tokens, last, categories, resets, nextResetId, req>>

ResendCheck(p, draw) ==
    /\ calls[p].pc = "check"
    /\ calls' = [calls EXCEPT ![p] =
                   IF hasRecentRequest(otps, calls[p].uid, "EMAIL_VERIFICATION",
                                       OtpCooldownMinutes, now)
                   THEN [@ EXCEPT !.pc = "done", !.outcome = "TOO_MANY_OTP_REQUESTS"]
                   ELSE [@ EXCEPT !.pc = "invalidate",
                                  !.code = generateOTP(OtpLength, draw),
                                  !.expires_at = generateOtpExpiry(OtpExpiryMinutes, now)]]
    /\ UNCHANGED <<users, otps, nextOtpId, now, tokens, last, categories, resets, nextResetId, req>>

ResendInvalidate(p) ==
    /\ calls[p].pc = "invalidate"
    /\ otps' = invalidateUserOtps(otps, calls[p].uid, "EMAIL_VERIFICATION")
    /\ calls' = [calls EXCEPT ![p].pc = "create"]
    /\ UNCHANGED <<users, nextOtpId, now, tokens, last, categories, resets, nextResetId, req>>

ResendCreate(p) ==
    /\ calls[p].pc = "create"
    /\ nextOtpId <= MaxOtps
    /\ otps' = otpCreate(otps, nextOtpId,
                         [user_id |-> calls[p].uid, otp_code |-> calls[p].code,
                          type |-> "EMAIL_VERIFICATION",
                          expires_at |-> calls[p].expires_at], now)
    /\ nextOtpId' = nextOtpId + 1
    /\ calls' = [calls EXCEPT ![p].pc = "send"]
    /\ UNCHANGED <<users, now, tokens, last, categories, resets, nextResetId, req>>

ResendSend(p, mailOk) ==
    /\ calls[p].pc = "send"
    /\ calls' = [calls EXCEPT ![p].pc = "done",
                              ![p].outcome = sendOtpNotification(mailOk)]
    /\ UNCHANGED <<users, otps, nextOtpId, now, tokens, last, categories, resets, nextResetId, req>>

---------------------------------------------------------------------------
(* resetPassword as the event loop runs it: the token lookup, the password *)
(* update, markAsUsed and invalidateUserTokens are awaited one by one, and  *)
(* the statements of two calls interleave                                   *)

ResetFind(p, token, newPassword) ==
    /\ calls[p].pc = "idle"
    /\ LET found == findValidByToken(resets, token, now)
       IN IF found = {}
          THEN calls' = [calls EXCEPT ![p] =
                           [Idle EXCEPT !.pc = "done", !.code = token,
                                        !.newPassword = newPassword,
                                        !.outcome = "INVALID_RESET_TOKEN"]]
          ELSE \E resetRecord \in found :
                 calls' = [calls EXCEPT ![p] =
                             [Idle EXCEPT !.pc = "update", !.code = token,
                                          !.newPassword = newPassword,
                                          !.uid = resetRecord.user_id,
                                          !.row = resetRecord.id]]
    /\ UNCHANGED <<users, otps, nextOtpId, now, tokens, last, categories, resets, nextResetId, req>>

ResetUpdate(p, salt) ==
    /\ calls[p].pc = "update"
    /\ users' = updateById(users, calls[p].uid,
                   [password_hash |-> hashPassword(calls[p].newPassword, salt)])
    /\ calls' = [calls EXCEPT ![p].pc = "mark"]
    /\ UNCHANGED <<otps, nextOtpId, now, tokens, last, categories, resets, nextResetId, req>>

ResetMark(p) ==
    /\ calls[p].pc = "mark"
    /\ resets' = resetMarkAsUsed(resets, calls[p].row)
    /\ calls' = [calls EXCEPT ![p].pc = "invalidateTokens"]
    /\ UNCHANGED <<users, otps, nextOtpId, now, tokens, last, categories, nextResetId, req>>

ResetInvalidate(p) ==
    /\ calls[p].pc = "invalidateTokens"
    /\ resets' = invalidateUserTokens(resets, calls[p].uid)
    /\ calls' = [calls EXCEPT ![p].pc = "done", ![p].outcome = "OK"]
    /\ UNCHANGED <<users, otps, nextOtpId, now, tokens, last, categories, nextResetId, req>>

---------------------------------------------------------------------------
(* verifyOtp as the event loop runs it: findValidOtp, then either the      *)
(* getRecentOtps diagnosis or markAsUsed, each awaited on its own          *)

VerifyFind(p, userId, otpCode, type) ==
    /\ calls[p].pc = "idle"
    /\ IF type \notin OTP_TYPES
       THEN calls' = [calls EXCEPT ![p] =
                        [Idle EXCEPT !.pc = "done", !.uid = userId, !.code = otpCode,
                                     !.type = type, !.outcome = "INVALID_OTP_TYPE"]]
       ELSE LET found == findValidOtp(otps, userId, otpCode, type, now)
            IN IF found = {}
               THEN calls' = [calls EXCEPT ![p] =
                                [Idle EXCEPT !.pc = "recent", !.uid = userId,
                                             !.code = otpCode, !.type = type]]
               ELSE \E otpRecord \in found :
                      calls' = [calls EXCEPT ![p] =
                                  [Idle EXCEPT !.pc = "markAsUsed", !.uid = userId,
                                               !.code = otpCode, !.type = type,
                                               !.row = otpRecord.id]]
    /\ UNCHANGED <<users, otps, nextOtpId, now, tokens, last, categories, resets, nextResetId, req>>

VerifyRecent(p) ==
    /\ calls[p].pc = "recent"
    /\ \E recentOtps \in getRecentOtps(otps, calls[p].uid, calls[p].type, LimitOne) :
          calls' = [calls EXCEPT ![p].pc = "done",
                                 ![p].outcome =
                                    IF Len(recentOtps) > 0
                                    THEN IF recentOtps[1].used
                                         THEN "OTP has already been used"
                                         ELSE IF recentOtps[1].expires_at < now
                                         THEN "OTP_EXPIRED"
                                         ELSE "OTP_INVALID"
                                    ELSE "OTP_INVALID"]
    /\ UNCHANGED <<users, otps, nextOtpId, now, tokens, last, categories, resets, nextResetId, req>>

VerifyMark(p) ==
    /\ calls[p].pc = "markAsUsed"
    /\ otps' = markAsUsed(otps, calls[p].row)
    /\ calls' = [calls EXCEPT ![p].pc = "done", ![p].outcome = "VALID"]
    /\ UNCHANGED <<users, nextOtpId, now, tokens, last, categories, resets, nextResetId, req>>

---------------------------------------------------------------------------
(* Specifications *)

Register ==
    \E email \in {"a@x.com"}, role \in {"CUSTOMER", NoRole},
       salt \in Salts, draw \in RandomDraws, mailOk \in BOOLEAN :
        registerUser(email, "P@ssw0rd1", role, salt, draw, mailOk)

VerifyEmail ==
    \E email \in Emails, code \in OtpCodes, mailOk \in BOOLEAN :
        verifyEmail(email, code, mailOk)

ResendOtp ==
    \E email \in Emails, draw \in RandomDraws, mailOk \in BOOLEAN :
        resendOtp(email, draw, mailOk)

Login == \E email \in Emails, password \in Passwords : authenticateUser(email, password)

Authenticate ==
    \/ \E token \in tokens \cup {ForgedToken} : authenticate(TRUE, token)
    \/ authenticate(FALSE, ForgedToken)

AdminUpdateUserStatus ==
    \E userId \in 1..MaxUsers, status \in USER_STATUSES \cup {"BANNED"} :
        updateUserStatus(userId, status) /\ UNCHANGED req

AdminDeleteUser == \E userId \in 1..MaxUsers : deleteUser(userId) /\ UNCHANGED req

\* the account lifecycle, one request at a time
Next ==
    \/ Register
    \/ VerifyEmail
    \/ ResendOtp
    \/ Login
    \/ Authenticate
    \/ AdminUpdateUserStatus
    \/ AdminDeleteUser
    \/ TickMinute
    \/ TickWeek

Spec == Init /\ [][Next]_vars

Issue ==
    \E userId \in 1..Len(users), type \in OTP_TYPES,
       draw \in RandomDraws, mailOk \in BOOLEAN :
        IssueOtp(userId, type, draw, mailOk)

Verify ==
    \E userId \in 1..Len(users), code \in OtpCodes, type \in OTP_TYPES :
        VerifyOtp(userId, code, type)

RegisterCustomer ==
    \E email \in Emails, draw \in RandomDraws :
        registerUser(email, "P@ssw0rd1", "CUSTOMER", "salt1", draw, TRUE)

RegisterOne ==
    \E draw \in RandomDraws :
        registerUser("a@x.com", "P@ssw0rd1", "CUSTOMER", "salt1", draw, TRUE)

ResendOne == \E draw \in RandomDraws : resendOtp("a@x.com", draw, TRUE)

\* the one-time-code issuer and verifier, one request at a time
NextOtp ==
    \/ RegisterOne
    \/ ResendOne
    \/ Issue
    \/ Verify
    \/ CleanupExpiredOtps
    \/ Tick

SpecOtp == Init /\ [][NextOtp]_vars

RefreshToken ==
    \E token \in tokens \cup {ForgedToken} : refreshAccessToken(token)

ForgotPassword == \E email \in Emails : createPasswordResetToken(email)

ResetTokens == {generatePasswordResetToken(d) : d \in 1..(MaxResets + 1)}

ResetPassword ==
    \E token \in ResetTokens, newPassword \in Passwords, salt \in Salts :
        resetPassword(token, newPassword, salt)

ChangePassword ==
    \E userId \in 1..MaxUsers, currentPassword \in Passwords,
       newPassword \in Passwords, salt \in Salts :
        changePassword(userId, currentPassword, newPassword, salt)

VerifyOne == \E code \in OtpCodes : verifyEmail("a@x.com", code, TRUE)

SetStatus ==
    \E status \in {"ACTIVE", "SUSPENDED"} :
        updateUserStatus(1, status) /\ UNCHANGED req

\* the tokens of one account, one request at a time
NextToken ==
    \/ RegisterOne
    \/ VerifyOne
    \/ Login
    \/ RefreshToken
    \/ SetStatus
    \/ AdminDeleteUser
    \/ TickWeek

SpecToken == Init /\ [][NextToken]_vars

\* the password of one account, one request at a time
NextPassword ==
    \/ RegisterOne
    \/ VerifyOne
    \/ ForgotPassword
    \/ ResetPassword
    \/ ChangePassword
    \/ AdminDeleteUser
    \/ TickMinute
    \/ TickCooldown
    \/ TickHour

SpecPassword == Init /\ [][NextPassword]_vars

\* two resendOtp calls served concurrently
NextRace ==
    \/ RegisterCustomer
    \/ TickMinute
    \/ \E p \in Procs, email \in Emails : ResendFind(p, email)
    \/ \E p \in Procs, draw \in RandomDraws : ResendCheck(p, draw)
    \/ \E p \in Procs : ResendInvalidate(p)
    \/ \E p \in Procs : ResendCreate(p)
    \/ \E p \in Procs, mailOk \in BOOLEAN : ResendSend(p, mailOk)

SpecRace == Init /\ [][NextRace]_vars

\* two resetPassword calls served concurrently
NextResetRace ==
    \/ RegisterOne
    \/ ForgotPassword
    \/ TickCooldown
    \/ TickHour
    \/ \E p \in Procs, token \in ResetTokens, newPassword \in Passwords :
          ResetFind(p, token, newPassword)
    \/ \E p \in Procs, salt \in Salts : ResetUpdate(p, salt)
    \/ \E p \in Procs : ResetMark(p)
    \/ \E p \in Procs : ResetInvalidate(p)

SpecResetRace == Init /\ [][NextResetRace]_vars

UpdateUserProfile ==
    \E userId \in 1..MaxUsers, body \in ProfileBodies :
        updateUserProfile(userId, body) /\ UNCHANGED req

\* one account, soft-deleted at some point, and the operations that name it
NextDeleted ==
    \/ RegisterOne
    \/ VerifyOne
    \/ Login
    \/ AdminUpdateUserStatus
    \/ AdminDeleteUser
    \/ ForgotPassword
    \/ ResetPassword
    \/ UpdateUserProfile

SpecDeleted == Init /\ [][NextDeleted]_vars

\* two verifyOtp calls served concurrently
NextVerifyRace ==
    \/ RegisterOne
    \/ Tick
    \/ \E p \in Procs, userId \in 1..MaxUsers, otpCode \in OtpCodes,
          type \in OTP_TYPES \cup {"LOGIN"} :
          VerifyFind(p, userId, otpCode, type)
    \/ \E p \in Procs : VerifyRecent(p)
    \/ \E p \in Procs : VerifyMark(p)

SpecVerifyRace == Init /\ [][NextVerifyRace]_vars

RegisterStaff ==
    \/ registerUser("a@x.com", "P@ssw0rd1", "ADMIN", "salt1", <<1, 2, 3, 4, 5, 6>>, TRUE)
    \/ \E role \in {"SELLER", "CUSTOMER"} :
          registerUser("b@x.com", "P@ssw0rd1", role, "salt1", <<1, 2, 3, 4, 5, 6>>, TRUE)

VerifyStaff ==
    \E email \in Emails :
        verifyEmail(email, generateOTP(OtpLength, <<1, 2, 3, 4, 5, 6>>), TRUE)

LoginStaff == \E email \in Emails : authenticateUser(email, "P@ssw0rd1")

AdminController(hasBearer, token) ==
    \/ adminRoute("GET /users", hasBearer, token, getUsers(DefaultOptions))
    \/ \E userId \in 1..MaxUsers :
          adminRoute("GET /users/:userId", hasBearer, token, getUserProfile(userId))
    \/ \E userId \in 1..MaxUsers, status \in {"ACTIVE", "SUSPENDED"} :
          adminRoute("PUT /users/:userId/status", hasBearer, token,
                     updateUserStatus(userId, status))
    \/ \E userId \in 1..MaxUsers :
          adminRoute("DELETE /users/:userId", hasBearer, token, deleteUser(userId))
    \/ adminRoute("GET /stats", hasBearer, token, getUserStats)

AdminRequest ==
    \/ \E token \in tokens \cup {ForgedToken} : AdminController(TRUE, token)
    \/ AdminController(FALSE, ForgedToken)

RoleSets == {{"ADMIN", "SELLER"}, {"CUSTOMER"}}

RoleRequest ==
    \E allowedRoles \in RoleSets :
       \/ \E token \in tokens \cup {ForgedToken} : roleRoute(allowedRoles, TRUE, token)
       \/ roleRoute(allowedRoles, FALSE, ForgedToken)

\* the guarded routers in front of an administrator and another user
NextAdmin ==
    \/ RegisterStaff
    \/ VerifyStaff
    \/ LoginStaff
    \/ AdminRequest
    \/ RoleRequest
    \/ TickWeek

SpecAdmin == Init /\ [][NextAdmin]_vars

RegisterRoute ==
    \E email \in Emails, role \in {NoRole, "SELLER", "OWNER"} :
        register(email, "P@ssw0rd1", role, "salt1", <<1, 2, 3, 4, 5, 6>>, TRUE)

UpdateProfile ==
    \E body \in ProfileBodies :
       \/ \E token \in tokens \cup {ForgedToken} : updateProfile(TRUE, token, body)
       \/ updateProfile(FALSE, ForgedToken, body)

\* two accounts registered over the API, one of them editing its profile
NextProfile ==
    \/ RegisterRoute
    \/ VerifyStaff
    \/ LoginStaff
    \/ UpdateProfile

SpecProfile == Init /\ [][NextProfile]_vars

---------------------------------------------------------------------------
(* Properties.  A request is the step that changes `last`; the tables and  *)
(* the clock it read are the unprimed ones.                                *)

Request(op) == last' # last /\ last'.op = op

AdminOps == {"updateUserStatus", "deleteUser"}

\* C1: once a user's status is SUSPENDED, no step other than an
\* administrator operation ends the suspension, and every login for that
\* user fails with ACCOUNT_SUSPENDED.
C1_SuspensionHolds ==
    [][\A u \in 1..Len(users) :
         (users[u].status = "SUSPENDED"
            /\ ~(last' # last /\ last'.op \in AdminOps))
           => /\ users'[u].status = "SUSPENDED"
              /\ (Request("authenticateUser") /\ last'.email = users[u].email)
                   => last'.outcome = "ACCOUNT_SUSPENDED"]_vars

C3_AuthenticateAttaches ==
    [][Request("authenticate") =>
         /\ (last'.reqUser # NoUser) <=> (last'.outcome = "OK")
         /\ last'.outcome = "OK"
              => \E tk \in last'.bearer :
                    /\ tk \in tokens
                    /\ now < tk.exp
                    /\ tk.type = "access"
                    /\ tk.userId \in 1..Len(users)
                    /\ users[tk.userId].status = "ACTIVE"
                    /\ last'.reqUser = [id |-> tk.userId,
                                        email |-> users[tk.userId].email,
                                        role |-> users[tk.userId].role,
                                        status |-> "ACTIVE"]
         /\ \A tk \in last'.bearer :
              (tk \in tokens /\ now < tk.exp)
                => /\ tk.type = "refresh" => last'.outcome = "INVALID_TOKEN_TYPE"
                   /\ (tk.type = "access" /\ users[tk.userId].status = "DELETED")
                        => last'.outcome = "USER_NOT_FOUND"
                   /\ (tk.type = "access"
                         /\ users[tk.userId].status \in {"SUSPENDED", "PENDING_VERIFICATION"})
                        => last'.outcome = "ACCOUNT_INACTIVE"]_vars

C3_Witness ==
    /\ last.op = "authenticate"
    /\ last.outcome = "ACCOUNT_INACTIVE"
    /\ \E tk \in last.bearer : tk \in tokens /\ tk.type = "access" /\ now < tk.exp
    /\ users[last.uid].status = "SUSPENDED"
    /\ users[last.uid].last_login_at # NULL

ValidOtps(userId, type) ==
    {r \in otps : /\ r.user_id = userId /\ r.type = type
                  /\ r.used = FALSE /\ r.expires_at > now}

\* C4: once two concurrent resendOtp calls for the same user have both
\* completed, at most one unused, unexpired EMAIL_VERIFICATION code exists
\* for that user.
C4_AtMostOneValidCode ==
    (\A p \in Procs : Finished(p))
      => \A u \in 1..Len(users) :
            Cardinality(ValidOtps(u, "EMAIL_VERIFICATION")) <= 1

IssueOps == {"generateAndSendOtp", "resendOtp", "registerUser"}

SixDigits(code) ==
    /\ DOMAIN code = 1..6
    /\ \A i \in DOMAIN code : \E d \in 1..10 : code[i] = digits[d]

SameCode(a, b) == a.uid = b.uid /\ a.type = b.type /\ a.code = b.code

\* C5: a code produced by issue is exactly 6 decimal digits; the first
\* verify of it before expiry returns Valid and marks the row used, and the
\* next verify with the same code returns "already used", not Valid.
C5_VerifyOnce ==
    [][/\ \A r \in otps' : SixDigits(r.otp_code)
       /\ (Request("verifyOtp") /\ last.op \in IssueOps /\ last.otpId # 0
             /\ SameCode(last, last')
             /\ \E r \in otps : r.id = last.otpId /\ now < r.expires_at)
            => /\ last'.outcome = "VALID"
               /\ last'.otpId = last.otpId
               /\ \E r \in otps' : r.id = last.otpId /\ r.used
       /\ (Request("verifyOtp") /\ last.op = "verifyOtp" /\ last.outcome = "VALID"
             /\ SameCode(last, last'))
            => /\ last'.outcome = "NOT_VALID"
               /\ last'.message = "OTP has already been used"]_vars

C5_Witness ==
    /\ last.op = "verifyOtp"
    /\ last.message = "OTP has already been used"
    /\ \E r \in otps : /\ r.user_id = last.uid /\ r.type = last.type
                       /\ r.otp_code = last.code /\ r.used
                       /\ \A s \in otps : s.user_id = r.user_id => s.id <= r.id

RowsOf(userId, type) == {r \in otps : r.user_id = userId /\ r.type = type}

\* C6 as stated: after two issues for a user and purpose, verify with the
\* code of the first does not return Valid, whatever values were generated.
C6_FirstCodeNeverValid ==
    (/\ last.op = "verifyOtp"
     /\ \E r1, r2 \in RowsOf(last.uid, last.type) :
           r1.created_at < r2.created_at /\ r1.otp_code = last.code)
      => last.outcome # "VALID"

\* C6 amended: after two issues for a user and purpose, verify with the code
\* of the first does not return Valid unless a later issue for that user and
\* purpose generated the same code value again.
C6_FirstCodeInvalidated ==
    (/\ last.op = "verifyOtp"
     /\ \E r1, r2 \in RowsOf(last.uid, last.type) :
           /\ r1.created_at < r2.created_at
           /\ r1.otp_code = last.code
           /\ \A s \in RowsOf(last.uid, last.type) :
                s.created_at > r1.created_at => s.otp_code # last.code)
      => last.outcome # "VALID"

C6_Witness ==
    /\ last.op = "verifyOtp"
    /\ last.outcome = "NOT_VALID"
    /\ \E r1, r2 \in RowsOf(last.uid, last.type) :
          /\ r1.created_at < r2.created_at
          /\ r1.otp_code = last.code
          /\ r2.otp_code # last.code
          /\ r1.expires_at > now
          /\ r1.used

C8_CooldownRejects ==
    [][\A op \in {"generateAndSendOtp", "resendOtp"} :
         Request(op) =>
           /\ (\E r \in RowsOf(last'.uid, last'.type) :
                  r.created_at > now - MinutesToTicks(OtpCooldownMinutes))
                => last'.outcome = "TOO_MANY_OTP_REQUESTS"
           /\ last'.outcome = "TOO_MANY_OTP_REQUESTS"
                => /\ otps' = otps
                   /\ nextOtpId' = nextOtpId
                   /\ last'.otpMail = 0
                   /\ last'.otpId = 0
           /\ (op = "resendOtp" /\ last.op = "registerUser" /\ last.otpId # 0
                 /\ last'.uid = last.uid
                 /\ now < MinutesToTicks(OtpCooldownMinutes)
                         + (CHOOSE r \in otps : r.id = last.otpId).created_at)
                => /\ last'.outcome = "TOO_MANY_OTP_REQUESTS"
                   /\ \E r \in otps' : /\ r.id = last.otpId
                                        /\ r.otp_code = last.code
                                        /\ r.used = FALSE
                                        /\ r.expires_at > now]_vars

C8_Witness ==
    /\ last.op = "resendOtp"
    /\ last.outcome = "TOO_MANY_OTP_REQUESTS"
    /\ \E r \in ValidOtps(last.uid, "EMAIL_VERIFICATION") :
          r.created_at < now /\ r.created_at > now - MinutesToTicks(OtpCooldownMinutes)
    /\ Cardinality(otps) = 1

\* C9: verifyEmail for a PENDING_VERIFICATION user, given that user's unused
\* and unexpired EMAIL_VERIFICATION code, sets the status to ACTIVE, sets
\* email_verified_at, marks the code used and attempts the welcome
\* notification exactly once.
C9_VerifyEmailActivates ==
    [][Request("verifyEmail") =>
         LET u == findByEmail(users, last'.email)
         IN (/\ u # 0
             /\ users[u].status = "PENDING_VERIFICATION"
             /\ \E r \in ValidOtps(u, "EMAIL_VERIFICATION") : r.otp_code = last'.code)
              => /\ users'[u].status = "ACTIVE"
                 /\ users'[u].email_verified_at # NULL
                 /\ \E r \in otps' : r.id = last'.otpId /\ r.used
                                      /\ r.otp_code = last'.code /\ r.user_id = u
                 /\ \A r \in otps' :
                       (r.user_id = u /\ r.type = "EMAIL_VERIFICATION"
                          /\ r.otp_code = last'.code) => r.used
                 /\ last'.welcomeMail = 1]_vars

C9_Witness ==
    /\ last.op = "verifyEmail"
    /\ last.outcome = "OK"
    /\ last.welcomeMail = 1
    /\ users[last.uid].status = "ACTIVE"
    /\ users[last.uid].email_verified_at = now

\* C10: when the submitted code is valid but the welcome notification
\* fails, verifyEmail still reports success and the user is ACTIVE with
\* email_verified_at set.
C10_WelcomeBestEffort ==
    (last.op = "verifyEmail" /\ last.welcomeMail = 1)
      => /\ last.outcome = "OK"
         /\ users[last.uid].status = "ACTIVE"
         /\ users[last.uid].email_verified_at # NULL

C12_DuplicateEmail ==
    [][(Request("registerUser") /\ emailTaken(users, last'.email))
         => /\ last'.outcome = "USER_ALREADY_EXISTS"
            /\ users' = users
            /\ otps' = otps]_vars

UnknownEmail == "nobody@x.com"

\* C19: for a wrong password, the error of login (status, code and message)
\* for the email of an existing account is the error it gives for an email
\* that no account has.
C19_NoEnumeration ==
    [][(/\ Request("authenticateUser")
        /\ \E u \in 1..Len(users) :
              /\ users[u].email = last'.email
              /\ ~verifyPassword(last'.password, users[u].password_hash))
         => loginError(last'.outcome)
              = loginError(authenticateUserCheck(users, UnknownEmail, last'.password))]_vars

\* C13: refreshAccessToken given a signed, unexpired access token fails
\* INVALID_TOKEN_TYPE and issues no token.
C13_AccessTokenRefused ==
    [][(/\ Request("refreshAccessToken")
        /\ \E tk \in last'.bearer :
              tk \in tokens /\ now < tk.exp /\ tk.type = "access")
         => /\ last'.outcome = "INVALID_TOKEN_TYPE"
            /\ last'.issued = {}
            /\ tokens' = tokens]_vars

\* C14: refreshAccessToken given a signed, unexpired refresh token of a user
\* whose status is ACTIVE returns one new access token with that user's id,
\* email and role and no new refresh token; for a user who is missing,
\* soft-deleted or not ACTIVE it fails and issues nothing.
C14_RefreshIssuesAccess ==
    [][(/\ Request("refreshAccessToken")
        /\ \E tk \in last'.bearer :
              tk \in tokens /\ now < tk.exp /\ tk.type = "refresh")
         => \A tk \in last'.bearer :
              IF findById(users, tk.userId) # 0 /\ users[tk.userId].status = "ACTIVE"
              THEN /\ last'.outcome = "OK"
                   /\ last'.issued =
                        {generateAccessToken([userId |-> tk.userId,
                                              email |-> users[tk.userId].email,
                                              role |-> users[tk.userId].role], now)}
                   /\ tokens' = tokens \cup last'.issued
              ELSE /\ last'.outcome # "OK"
                   /\ last'.issued = {}
                   /\ tokens' = tokens]_vars

\* C15: resetPassword with a token that has no unused, unexpired row fails
\* INVALID_RESET_TOKEN and leaves every password hash unchanged; with a valid
\* token it replaces the password hash of the token's user, so that (for an
\* ACTIVE user) a login with the new password succeeds and a login with a
\* different old password fails INVALID_CREDENTIALS.
C15_ResetReplacesHash ==
    [][Request("resetPassword") =>
         LET found == findValidByToken(resets, last'.code, now)
         IN IF found = {}
            THEN /\ last'.outcome = "INVALID_RESET_TOKEN"
                 /\ users' = users
            ELSE \A r \in found :
                   LET old == users[r.user_id].password_hash[3]
                       email == users[r.user_id].email
                   IN /\ last'.outcome = "OK"
                      /\ verifyPassword(last'.newPassword,
                                        users'[r.user_id].password_hash)
                      /\ users[r.user_id].status = "ACTIVE"
                           => /\ authenticateUserCheck(users', email,
                                                       last'.newPassword) = "OK"
                              /\ old # last'.newPassword
                                   => authenticateUserCheck(users', email, old)
                                        = "INVALID_CREDENTIALS"]_vars

UsableResets(rows, userId, t) ==
    {r \in rows : r.user_id = userId /\ r.used = FALSE /\ r.expires_at > t}

\* C17: createPasswordResetToken fails USER_NOT_FOUND for an email no
\* non-deleted user has, is rejected TOO_MANY_REQUESTS when a reset row of the
\* user was created within the last 5 minutes, and otherwise marks the
\* user's unused rows used and creates a row expiring 1 hour later; with
\* requests served one at a time no user ever has more than one unused,
\* unexpired reset token.
C17_SingleResetToken ==
    [][/\ \A u \in 1..Len(users') : Cardinality(UsableResets(resets', u, now')) <= 1
       /\ Request("createPasswordResetToken") =>
            LET uid == findByEmail(users, last'.email)
                recent == {r \in resets :
                             /\ r.user_id = uid
                             /\ r.created_at
                                  > now - MinutesToTicks(ResetCooldownMinutes)}
            IN IF uid = 0
               THEN /\ last'.outcome = "USER_NOT_FOUND"
                    /\ resets' = resets
               ELSE IF recent # {}
               THEN /\ last'.outcome = "TOO_MANY_REQUESTS"
                    /\ resets' = resets
                    /\ nextResetId' = nextResetId
               ELSE /\ last'.outcome = "OK"
                    /\ \E r \in resets' :
                          /\ r.id = last'.resetId
                          /\ r.id \notin {q.id : q \in resets}
                          /\ r.user_id = uid
                          /\ r.token = last'.code
                          /\ r.used = FALSE
                          /\ r.created_at = now
                          /\ r.expires_at = now + MinutesToTicks(ResetExpiryMinutes)
                          /\ UsableResets(resets', uid, now') = {r}
                          /\ Cardinality(resets') = Cardinality(resets) + 1
                    /\ \A q \in resets :
                          \E r \in resets' :
                             /\ r.id = q.id
                             /\ IF q.user_id = uid
                                THEN r = [q EXCEPT !.used = TRUE]
                                ELSE r = q]_vars

C17_Witness ==
    /\ last.op = "createPasswordResetToken"
    /\ last.outcome = "OK"
    /\ \E r, q \in resets :
          /\ r.id = last.resetId /\ r.used = FALSE
          /\ q.user_id = r.user_id /\ q.id < r.id /\ q.used
          /\ q.expires_at > now

\* C18: changePassword replaces the stored password hash only if
\* currentPassword matches it; with a current password that does not match
\* it fails INVALID_CURRENT_PASSWORD and the stored hash is unchanged.
C18_ChangeNeedsCurrent ==
    [][Request("changePassword") =>
         LET u == last'.uid
         IN IF findById(users, u) = 0
            THEN last'.outcome = "USER_NOT_FOUND" /\ users' = users
            ELSE IF users[u].password_hash[3] = last'.password
            THEN /\ last'.outcome = "OK"
                 /\ users'[u].password_hash[3] = last'.newPassword
                 /\ users'[u].password_hash[1] = "$2a$12$"
                 /\ users' = [users EXCEPT ![u].password_hash =
                                                users'[u].password_hash]
            ELSE /\ last'.outcome = "INVALID_CURRENT_PASSWORD"
                 /\ users' = users]_vars

C18_Witness ==
    /\ last.op = "changePassword"
    /\ last.outcome = "OK"
    /\ last.password # last.newPassword
    /\ users[last.uid].password_hash[3] = last.newPassword

\* C16: over every interleaving of concurrent resetPassword calls, a reset
\* token authorises at most one successful call: two calls that presented
\* the same token never both end successfully.
C16_TokenUsedOnce ==
    \A p, q \in Procs :
       (/\ p # q
        /\ Finished(p) /\ calls[p].outcome = "OK"
        /\ Finished(q) /\ calls[q].outcome = "OK")
         => calls[p].code # calls[q].code

AdminServiceOps ==
    {"getUsers", "getUserProfile", "updateUserStatus", "deleteUser", "getUserStats"}

\* the bearer token tk verifies as an access token of an ACTIVE user
ActiveBearer(tk) ==
    /\ tk \in tokens
    /\ now < tk.exp
    /\ tk.type = "access"
    /\ tk.userId \in 1..Len(users)
    /\ users[tk.userId].status = "ACTIVE"

\* C20: authorize(allowedRoles) lets a request of an authenticated user
\* through only if the user's role is in allowedRoles and rejects it with
\* the 403 INSUFFICIENT_PERMISSIONS otherwise; every admin operation (list
\* users, get user, update status, delete user, stats) executes only for a
\* request whose bearer token authenticates an ACTIVE user with role ADMIN,
\* and a request without one leaves the users table as it was.
C20_AdminOnly ==
    [][/\ Request("requireRole") =>
            /\ last'.outcome = "OK"
                 <=> \E tk \in last'.bearer :
                        ActiveBearer(tk) /\ users[tk.userId].role \in last'.data
            /\ \A tk \in last'.bearer :
                  (ActiveBearer(tk) /\ users[tk.userId].role \notin last'.data)
                    => last'.outcome = "INSUFFICIENT_PERMISSIONS"
       /\ (last' # last /\ last'.op \in AdminServiceOps) =>
            \E tk \in req'.bearer :
               /\ ActiveBearer(tk)
               /\ users[tk.userId].role = "ADMIN"
               /\ req'.user = [id |-> tk.userId, email |-> users[tk.userId].email,
                               role |-> "ADMIN", status |-> "ACTIVE"]
       /\ users' # users =>
            \/ last'.op \in {"registerUser", "verifyEmail", "authenticateUser"}
            \/ \E tk \in req'.bearer :
                  ActiveBearer(tk) /\ users[tk.userId].role = "ADMIN"]_vars

C20_Witness ==
    /\ last.op = "updateUserStatus"
    /\ last.outcome = "OK"
    /\ req.route = "PUT /users/:userId/status"
    /\ req.user.role = "ADMIN"
    /\ last.uid # req.user.id
    /\ users[last.uid].status = "SUSPENDED"
    /\ users[last.uid].role = "SELLER"

\* C21: deleteUser(id) keeps the row and sets its status to DELETED, after
\* which findById and findByEmail no longer return it; deleteUser of a row
\* that is already DELETED fails USER_NOT_FOUND; and no step of any
\* operation (updateUserStatus, verifyEmail, resetPassword,
\* updateUserProfile, login) changes the status of a DELETED row.
C21_DeletedIsTerminal ==
    [][/\ \A u \in 1..Len(users) :
            users[u].status = "DELETED"
              => /\ u <= Len(users')
                 /\ users'[u].status = "DELETED"
                 /\ users'[u].email = users[u].email
       /\ Request("deleteUser") =>
            LET u == last'.uid
            IN IF findById(users, u) = 0
               THEN last'.outcome = "USER_NOT_FOUND" /\ users' = users
               ELSE /\ last'.outcome = "OK"
                    /\ users' = [users EXCEPT ![u].status = "DELETED"]
                    /\ findById(users', u) = 0
                    /\ findByEmail(users', users[u].email) = 0
       /\ (/\ last' # last
           /\ last'.op \in {"updateUserStatus", "updateUserProfile"}
           /\ last'.uid \in 1..Len(users)
           /\ users[last'.uid].status = "DELETED")
            => last'.outcome \in {"USER_NOT_FOUND", "INVALID_STATUS"}
       /\ (/\ last' # last
           /\ last'.op \in {"verifyEmail", "authenticateUser"}
           /\ \A i \in 1..Len(users) :
                 users[i].email = last'.email => users[i].status = "DELETED")
            => last'.outcome \in {"USER_NOT_FOUND", "INVALID_CREDENTIALS"}]_vars

C21_Witness ==
    /\ last.op = "deleteUser"
    /\ last.outcome = "USER_NOT_FOUND"
    /\ last.uid \in 1..Len(users)
    /\ users[last.uid].status = "DELETED"
    /\ users[last.uid].email_verified_at # NULL

UpdateOps ==
    {"verifyEmail", "updateUserStatus", "resetPassword", "changePassword",
     "updateUserProfile"}

\* C22: userRepository.updateById never reports success for a missing or
\* soft-deleted user: an operation that hands it the id of a row that does
\* not exist or is DELETED does not end successfully.
C22_UpdateNeedsRow ==
    [][(/\ last' # last
        /\ last'.op \in UpdateOps
        /\ last'.uid # 0
        /\ findById(users, last'.uid) = 0)
         => last'.outcome # "OK"]_vars

C26_FailedRegisterRollsBack ==
    [][(Request("registerUser") /\ last'.outcome # "OK")
         => /\ users' = users
            /\ otps' = otps
            /\ findByEmail(users', last'.email) = findByEmail(users, last'.email)]_vars

\* C27: in every reachable state a user with status ACTIVE has a non-null
\* email_verified_at.
C27_ActiveIsVerified ==
    \A u \in 1..Len(users) :
       users[u].status = "ACTIVE" => users[u].email_verified_at # NULL

\* C24: PUT /auth/me with a body {firstName?, lastName?, phone?} sets the
\* authenticated user's first name, last name and phone to the supplied
\* values and returns the updated user without the password hash.
C24_UpdateProfileApplies ==
    [][(/\ Request("updateUserProfile")
        /\ DOMAIN last'.data # {}
        /\ DOMAIN last'.data \subseteq {"firstName", "lastName", "phone"})
         => LET u == last'.uid
                body == last'.data
            IN /\ last'.outcome = "OK"
               /\ "firstName" \in DOMAIN body => users'[u].first_name = body.firstName
               /\ "lastName" \in DOMAIN body => users'[u].last_name = body.lastName
               /\ "phone" \in DOMAIN body => users'[u].phone = body.phone
               /\ last'.user = sanitize(u, users'[u])]_vars

\* C28: updateUserProfile(userId, body) changes only first_name, last_name
\* and phone of that one user: whatever the body carries, every other
\* column of the row and every other row are unchanged, and a body with
\* none of the three fields fails NO_UPDATE_FIELDS without writing.
C28_ProfileFrame ==
    [][Request("updateUserProfile") =>
         LET u == last'.uid
             body == last'.data
             allowed == {"first_name", "last_name", "phone"} \cap DOMAIN body
         IN IF findById(users, u) = 0
            THEN last'.outcome = "USER_NOT_FOUND" /\ users' = users
            ELSE IF allowed = {}
            THEN last'.outcome = "NO_UPDATE_FIELDS" /\ users' = users
            ELSE /\ last'.outcome = "OK"
                 /\ Len(users') = Len(users)
                 /\ \A i \in 1..Len(users) : i # u => users'[i] = users[i]
                 /\ DOMAIN users'[u] = DOMAIN users[u]
                 /\ \A f \in DOMAIN users[u] :
                       users'[u][f] = IF f \in allowed THEN body[f]
                                      ELSE users[u][f]]_vars

C28_Witness ==
    /\ last.op = "updateUserProfile"
    /\ last.outcome = "OK"
    /\ {"role", "status", "email", "password_hash"} \subseteq DOMAIN last.data
    /\ Len(users) = 2
    /\ users[last.uid].first_name = "Bob"
    /\ users[last.uid].role # last.data.role
    /\ users[last.uid].email # last.data.email

\* C29: an issued OTP code yields at most one Valid result: over every
\* interleaving of concurrent verifyOtp calls, two calls never both return
\* Valid for the same row of otp_verifications.
C29_ValidOnce ==
    \A p, q \in Procs :
       (/\ p # q
        /\ Finished(p) /\ calls[p].outcome = "VALID"
        /\ Finished(q) /\ calls[q].outcome = "VALID")
         => calls[p].row # calls[q].row

---------------------------------------------------------------------------
(* Categories: the category repository (CategoryRepository) and
   app/services CategoryService *)

MaxCategories == 2
DefaultPage == 1
DefaultLimit == 20

CategoryNames == {"Books", "Games", "Toys", "Toys!"}

\* request bodies of createCategory: a name, with or without a parent,
\* with or without is_active
CreateBodies ==
    {[name |-> n] : n \in CategoryNames}
    \cup {[name |-> n, parent_id |-> p] :
            n \in CategoryNames, p \in 1..MaxCategories}
    \cup {[name |-> "Games", parent_id |-> NULL],
          [name |-> "Games", is_active |-> FALSE]}

\* request bodies of updateCategory: a new parent, no parent, a new name,
\* a new is_active, or no field
UpdateBodies ==
    {[parent_id |-> p] : p \in {NULL} \cup (1..MaxCategories)}
    \cup {[name |-> "Toys!"], [is_active |-> FALSE], [k \in {} |-> ""]}

\* query filters of getAllCategories
CategoryQueries ==
    {[page |-> pg, limit |-> 1] : pg \in 1..2}
    \cup {[page |-> 1, limit |-> 2],
          [page |-> 1, limit |-> 1, is_active |-> "true"],
          [page |-> 1, limit |-> 2, parent_id |-> 1],
          [k \in {} |-> ""]}

\* generateSlug: lower case, trimmed, characters other than word
\* characters, spaces and hyphens removed, runs of spaces, underscores and
\* hyphens replaced by one hyphen
generateSlug(name) ==
    CASE name = "Books" -> "books"
      [] name = "Games" -> "games"
      [] name = "Toys"  -> "toys"
      [] name = "Toys!" -> "toys"

\* the place of a name in ORDER BY c.name ASC
nameOrder(name) ==
    CASE name = "Books" -> 1
      [] name = "Games" -> 2
      [] name = "Toys"  -> 3
      [] name = "Toys!" -> 4

\* CategoryRepository.findById: WHERE c.id = ? AND c.deleted_at IS NULL;
\* the id found, 0 for null
categoryFindById(cs, id) ==
    IF id \in 1..Len(cs) /\ cs[id].deleted_at = NULL THEN id ELSE 0

\* excludeId = 0 stands for the default null
nameExists(cs, name, excludeId) ==
    \E i \in 1..Len(cs) :
       /\ cs[i].name = name
       /\ cs[i].deleted_at = NULL
       /\ excludeId # 0 => i # excludeId

slugExists(cs, slug, excludeId) ==
    \E i \in 1..Len(cs) :
       /\ cs[i].slug = slug
       /\ cs[i].deleted_at = NULL
       /\ excludeId # 0 => i # excludeId

\* INSERT INTO categories; deleted_at defaults to NULL
categoryCreate(cs, categoryData) ==
    Append(cs, [name |-> categoryData.name, slug |-> categoryData.slug,
                parent_id |-> categoryData.parent_id,
                is_active |-> categoryData.is_active,
                sort_order |-> categoryData.sort_order,
                deleted_at |-> NULL])

\* CategoryRepository.findAll: the ids of the rows selected, in the order of
\* the query; LIMIT only when filters.limit is truthy, OFFSET only inside it
\* and when filters.offset is truthy
categoryFindAll(cs, filters) ==
    LET match == {i \in 1..Len(cs) :
                    /\ cs[i].deleted_at = NULL
                    /\ ("is_active" \in DOMAIN filters
                          => cs[i].is_active = filters.is_active)
                    /\ ("parent_id" \in DOMAIN filters
                          => cs[i].parent_id = filters.parent_id)}
        before(i, j) == \/ cs[i].sort_order < cs[j].sort_order
                        \/ /\ cs[i].sort_order = cs[j].sort_order
                           /\ nameOrder(cs[i].name) < nameOrder(cs[j].name)
        rank(i) == Cardinality({j \in match : before(j, i)})
        limited == "limit" \in DOMAIN filters /\ filters.limit # 0
        offset == IF limited /\ "offset" \in DOMAIN filters
                  THEN filters.offset ELSE 0
        rows == {i \in match :
                   /\ rank(i) >= offset
                   /\ limited => rank(i) < offset + filters.limit}
    IN [k \in 1..Cardinality(rows) |->
          CHOOSE i \in rows : rank(i) = offset + k - 1]

\* CategoryRepository.update: the allowed fields of updateData are written
\* to the row of that id
categoryUpdate(cs, id, updateData) ==
    LET allowedFields == {"name", "description", "slug", "parent_id",
                          "image_url", "is_active", "sort_order"}
    IN [cs EXCEPT ![id] =
          [f \in DOMAIN cs[id] |->
             IF f \in allowedFields \cap DOMAIN updateData
             THEN updateData[f] ELSE cs[id][f]]]

createCategory(categoryData) ==
    LET name == categoryData.name
        hasParent == /\ "parent_id" \in DOMAIN categoryData
                     /\ categoryData.parent_id # NULL
        slug == generateSlug(name)
        outcome ==
            IF hasParent /\ categoryFindById(categories, categoryData.parent_id) = 0
            THEN "PARENT_CATEGORY_NOT_FOUND"
            ELSE IF nameExists(categories, name, 0) THEN "CATEGORY_NAME_EXISTS"
            ELSE IF slugExists(categories, slug, 0) THEN "CATEGORY_SLUG_EXISTS"
            ELSE "OK"
        newCategoryData ==
            [name |-> name, slug |-> slug,
             parent_id |-> IF hasParent THEN categoryData.parent_id ELSE NULL,
             is_active |-> IF "is_active" \in DOMAIN categoryData
                           THEN categoryData.is_active ELSE TRUE,
             sort_order |-> IF "sort_order" \in DOMAIN categoryData
                            THEN categoryData.sort_order ELSE 0]
    IN /\ categories' = IF outcome = "OK"
                        THEN categoryCreate(categories, newCategoryData)
                        ELSE categories
       /\ last' = [NoResult EXCEPT !.op = "createCategory",
                     !.uid = IF outcome = "OK" THEN Len(categories) + 1 ELSE 0,
                     !.data = categoryData, !.outcome = outcome]
       /\ UNCHANGED <<users, otps, nextOtpId, now, tokens, calls, resets,
                      nextResetId, req>>

updateCategory(id, updateData) ==
    LET existingCategory == categoryFindById(categories, id)
        newParent == /\ "parent_id" \in DOMAIN updateData
                     /\ updateData.parent_id # NULL
                     /\ updateData.parent_id # categories[id].parent_id
        renamed == /\ "name" \in DOMAIN updateData
                   /\ updateData.name # categories[id].name
        slug == IF renamed THEN generateSlug(updateData.name)
                ELSE categories[id].slug
        updateFields ==
            [f \in (DOMAIN updateData
                      \cap {"name", "parent_id", "is_active", "sort_order"})
                   \cup (IF slug # categories[id].slug THEN {"slug"} ELSE {}) |->
               IF f = "slug" THEN slug ELSE updateData[f]]
        outcome ==
            IF existingCategory = 0 THEN "CATEGORY_NOT_FOUND"
            ELSE IF newParent /\ updateData.parent_id = id
            THEN "INVALID_PARENT_CATEGORY"
            ELSE IF newParent /\ categoryFindById(categories, updateData.parent_id) = 0
            THEN "PARENT_CATEGORY_NOT_FOUND"
            ELSE IF renamed /\ nameExists(categories, updateData.name, id)
            THEN "CATEGORY_NAME_EXISTS"
            ELSE IF renamed /\ slugExists(categories, slug, id)
            THEN "CATEGORY_SLUG_EXISTS"
            ELSE IF DOMAIN updateFields = {} THEN "CATEGORY_UPDATE_ERROR"
            ELSE "OK"
    IN /\ categories' = IF outcome = "OK"
                        THEN categoryUpdate(categories, id, updateFields)
                        ELSE categories
       /\ last' = [NoResult EXCEPT !.op = "updateCategory", !.uid = id,
                     !.data = updateData, !.outcome = outcome]
       /\ UNCHANGED <<users, otps, nextOtpId, now, tokens, calls, resets,
                      nextResetId, req>>

\* getCategoryCount: the length of what findAll returns for these filters
getCategoryCount(cs, filters) == Len(categoryFindAll(cs, filters))

getAllCategories(filters) ==
    LET page == IF "page" \in DOMAIN filters THEN filters.page ELSE DefaultPage
        limit == IF "limit" \in DOMAIN filters THEN filters.limit
                 ELSE DefaultLimit
        offset == (page - 1) * limit
        filterOptions ==
            [f \in {"limit", "offset"}
                   \cup ({"is_active", "parent_id"} \cap DOMAIN filters) |->
               CASE f = "limit" -> limit
                 [] f = "offset" -> offset
                 [] f = "is_active" -> (filters.is_active = "true")
                 [] f = "parent_id" -> filters.parent_id]
        rows == categoryFindAll(categories, filterOptions)
        totalCount == getCategoryCount(categories, filterOptions)
    IN /\ last' = [NoResult EXCEPT !.op = "getAllCategories", !.outcome = "OK",
                     !.data = [filters |-> filters, categories |-> rows,
                               pagination |->
                                 [page |-> page, limit |-> limit,
                                  total |-> totalCount,
                                  pages |-> (totalCount + limit - 1) \div limit]]]
       /\ UNCHANGED <<users, otps, nextOtpId, now, tokens, calls, categories,
                      resets, nextResetId, req>>

CreateCategory ==
    \E categoryData \in CreateBodies :
       /\ Len(categories) < MaxCategories
       /\ createCategory(categoryData)

UpdateCategory ==
    \E id \in 1..MaxCategories, updateData \in UpdateBodies :
       updateCategory(id, updateData)

GetAllCategories == \E filters \in CategoryQueries : getAllCategories(filters)

NextCategory == CreateCategory \/ UpdateCategory \/ GetAllCategories

SpecCategory == Init /\ [][NextCategory]_vars

RECURSIVE ancestors(_, _, _)
\* the categories reached from id along at most n parent_id links
ancestors(cs, id, n) ==
    IF n = 0 \/ cs[id].parent_id \notin 1..Len(cs) THEN {}
    ELSE {cs[id].parent_id} \cup ancestors(cs, cs[id].parent_id, n - 1)

\* C30: the parent relation of categories is acyclic in every reachable
\* state: no category is its own ancestor, directly or through a chain of
\* parent_id links.
C30_Acyclic ==
    \A id \in 1..Len(categories) :
       id \notin ancestors(categories, id, Len(categories))

\* the rows getAllCategories selects from, whatever the page and the limit
filteredCategories(cs, filters) ==
    {i \in 1..Len(cs) :
       /\ cs[i].deleted_at = NULL
       /\ ("is_active" \in DOMAIN filters
             => cs[i].is_active = (filters.is_active = "true"))
       /\ ("parent_id" \in DOMAIN filters
             => cs[i].parent_id = filters.parent_id)}

\* C25: the pagination of getAllCategories reports as total the number of
\* rows of the full filtered result set, independent of page and limit, and
\* as pages the ceiling of total / limit.
C25_TotalIsFullCount ==
    (last.op = "getAllCategories") =>
       LET pagination == last.data.pagination
           total == Cardinality(filteredCategories(categories, last.data.filters))
       IN /\ pagination.total = total
          /\ pagination.pages = (total + pagination.limit - 1) \div pagination.limit

====
